---- MODULE Spec2Model ----
(***************************************************************************)
(* A model of pyExpTools/SpectTools.py: one SpectGroup (the store), the    *)
(* SpectExp objects (the records) it may reference, and the two cached     *)
(* tables of the group (the composed table and the statistics table).      *)
(*                                                                         *)
(* A pandas DataFrame is a record [columns, rows]: columns is the sequence *)
(* of column labels and rows the sequence of rows, each row a tuple with   *)
(* one entry per column.  pandas.merge is modelled by its documented       *)
(* inner-join semantics on the key column (rows in the order of the left   *)
(* frame, every pair of matching rows kept); the labels it gives the value *)
(* columns are overwritten by SpectGroup.__Compose and are not modelled    *)
(* beyond their number.  Every DataFrame a caller passes in is a frame of  *)
(* its own (no two calls share one DataFrame object).                      *)
(*                                                                         *)
(* Spec is the group with its setters, Compose and genStats; SpecGen adds  *)
(* genSubgroup; SpecSub has a second SpectGroup over experiments of the    *)
(* first; SpecRead is SpectExp.readFile on the lines of a source file;     *)
(* SpecAttr is one SpectExp and every setter of it; SpecPlot is the group  *)
(* and SpectGroup.plot; SpecJson is the constructor of a group from a JSON *)
(* file; SpecConf is plotConf.setAxisTitles.                               *)
(***************************************************************************)
EXTENDS Integers, Sequences, FiniteSets, TLC

\* ------------------------------------------------------------------ bounds
\* the SpectExp objects that exist, 1..NumExps
NumExps == 2
\* the longest experiment list a caller builds
MaxExps == 2
\* how often the caller changes the group's list through its own reference
MaxListOps == 1

Exps == 1..NumExps

\* the longest index list a caller passes to getExpList
MaxSubExps == 1
MaxNum == 3
MaxTitles == 3

\* Python's None
None == [none |-> TRUE]
\* an object that is not a SpectExp (the experiments are 1..NumExps)
Junk == 0
\* an index that is not an int (the indexes a caller passes are far smaller)
NotInt == 100

\* a Python list in an attribute that holds None before it is set
List(l) == [list |-> l]

\* a Python str, and an object that is not a str
PyStr(t) == [text |-> t]
NotStr == [number |-> 5]
IsStr(x) == "text" \in DOMAIN x \/ "fields" \in DOMAIN x

\* ------------------------------------------------------- the DataFrames
Frame(cols, rws) == [columns |-> cols, rows |-> rws]

\* The tables a caller (or read_csv) hands to SpectExp.setData: two columns,
\* key then value.  FrameD repeats a key and shares no key with FrameA; FrameB
\* comes with labels of its own.
FrameA == Frame(<<"Wavelength", "Measure">>, << <<1, 11>>, <<2, 12>>, <<3, 13>> >>)
FrameB == Frame(<<"A", "B">>, << <<2, 22>>, <<3, 23>>, <<4, 24>> >>)
FrameC == Frame(<<"Wavelength", "Measure">>, << <<1, 31>>, <<2, 32>>, <<3, 33>>, <<4, 34>> >>)
FrameD == Frame(<<"Wavelength", "Measure">>, << <<4, 41>>, <<4, 44>> >>)
\* the table experiment e is loaded with
InputFrames(e) ==
    CASE e = 1 -> {FrameA}
      [] e = 2 -> {FrameB, FrameD}
      [] OTHER -> {FrameC}

\* a table of three columns
FrameWide == Frame(<<"Wavelength", "Measure", "Extra">>, << <<1, 11, 111>> >>)

\* The tables a caller hands to SpectGroup.setData and SpectGroup.setStats.
UserData == Frame(<<"Wavelength", "Exp_0">>, << <<7, 70>> >>)
UserBadData == Frame(<<"X", "Exp_0">>, << <<7, 70>> >>)
UserStats == Frame(<<"Wavelength", "min", "max", "mean", "std">>,
                   << <<8, <<80, 1>>, <<80, 1>>, <<80, 1>>, <<0, 0>> >> >>)

\* ------------------------------------------------------------ the state
VARIABLES
    exp_data,   \* SpectExp.__data of every SpectExp object: a frame or None
    expList,    \* SpectGroup.__expList
    data,       \* SpectGroup.__data, the composed cache
    stats,      \* SpectGroup.__stats, the statistics cache
    listOps,    \* how often the caller changed the list through its reference
    exp_meta,   \* SpectExp.__metaInfo of every SpectExp object: lines or None
    exp_attrs,  \* SpectExp.__name and __sourceFile of every SpectExp object
    axis_titles,\* plotConf.__axis_titles of a plotConf object
    group_name, \* SpectGroup.__name
    sub_expList,\* __expList, __data and __stats of a second SpectGroup, built
    sub_data,   \* over experiments of the first the way genSubgroup builds a
    sub_stats,  \* subgroup
    op,         \* the last call made
    arg,        \* its argument when it returned (for Compose: whether it
                \* follows a Compose() that returned; for genStats: whether
                \* it ran Compose()), None when it raised; readFile, plot,
                \* setAxisTitles and the JSON constructor keep it then too
    err         \* the exception it raised, or None

subvars == <<sub_expList, sub_data, sub_stats>>

vars == <<exp_data, expList, data, stats, listOps, exp_meta, exp_attrs, axis_titles,
          group_name, subvars, op, arg, err>>

\* ------------------------------------------------------------- helpers
Range(s) == {s[i] : i \in 1..Len(s)}

RECURSIVE SeqsUpTo(_, _)
SeqsUpTo(S, n) ==
    IF n = 0 THEN {<<>>}
    ELSE LET shorter == SeqsUpTo(S, n - 1)
         IN  shorter \cup {Append(s, x) : s \in {t \in shorter : Len(t) = n - 1}, x \in S}

\* the exception objects: the class, and the index a message names
Error(type) == [type |-> type]
IndexError_(type, index) == [type |-> type, index |-> index]

\* "Exp_{}".format(x)
ExpLabels == <<"Exp_0", "Exp_1", "Exp_2", "Exp_3", "Exp_4", "Exp_5">>
ExpLabel(x) == ExpLabels[x + 1]

\* SpectExp.isLoaded
isLoaded(e) == exp_data[e] # None

\* SpectGroup.isComposed, SpectGroup.isStats
isComposed == data # None
isStats == stats # None

\* ------------------------------------------------------- pandas.merge
\* the rows of y that carry the key of row, each appended to row without
\* its own key, in the order of y
RECURSIVE JoinRow(_, _)
JoinRow(row, yrows) ==
    IF yrows = <<>> THEN <<>>
    ELSE (IF Head(yrows)[1] = row[1] THEN << row \o Tail(Head(yrows)) >> ELSE <<>>)
         \o JoinRow(row, Tail(yrows))

RECURSIVE JoinRows(_, _)
JoinRows(xrows, yrows) ==
    IF xrows = <<>> THEN <<>>
    ELSE JoinRow(Head(xrows), yrows) \o JoinRows(Tail(xrows), yrows)

\* merge as a left join: a row of x without a match is kept, its value filled
RECURSIVE LeftRows(_, _)
LeftRows(xrows, yrows) ==
    IF xrows = <<>> THEN <<>>
    ELSE (IF JoinRow(Head(xrows), yrows) = <<>>
          THEN << Head(xrows) \o <<-1>> >>
          ELSE JoinRow(Head(xrows), yrows))
         \o LeftRows(Tail(xrows), yrows)

merge_left(x, y) == Frame(x.columns \o Tail(y.columns), LeftRows(x.rows, y.rows))

\* merge as a lookup: a row of x is joined to its first match in y only
RECURSIVE FirstRows(_, _)
FirstRows(xrows, yrows) ==
    IF xrows = <<>> THEN <<>>
    ELSE (IF JoinRow(Head(xrows), yrows) = <<>>
          THEN <<>>
          ELSE << Head(JoinRow(Head(xrows), yrows)) >>)
         \o FirstRows(Tail(xrows), yrows)

merge_first(x, y) == Frame(x.columns \o Tail(y.columns), FirstRows(x.rows, y.rows))

\* merge with its arguments exchanged
merge_swapped(x, y) == Frame(y.columns \o Tail(x.columns), JoinRows(y.rows, x.rows))

\* merge as a cross join: every row of x with every row of y
RECURSIVE CrossRows(_, _)
CrossRows(xrows, yrows) ==
    IF xrows = <<>> THEN <<>>
    ELSE [i \in 1..Len(yrows) |-> Head(xrows) \o Tail(yrows[i])]
         \o CrossRows(Tail(xrows), yrows)

merge_cross(x, y) == Frame(x.columns \o Tail(y.columns), CrossRows(x.rows, y.rows))

\* pd.merge(x, y, on = ["Wavelength"], suffixes = ("_", "_")): how = "inner"
merge(x, y) == Frame(x.columns \o Tail(y.columns), JoinRows(x.rows, y.rows))

\* functools.reduce(lambda x, y: pd.merge(x, y, ...), frames) of a non-empty
\* list: a list of one frame gives that very frame
RECURSIVE reduce(_)
reduce(frames) ==
    IF Len(frames) = 1 THEN frames[1]
    ELSE merge(reduce(SubSeq(frames, 1, Len(frames) - 1)), frames[Len(frames)])

\* ["Wavelength"] + ["Exp_{}".format(x) for x in colIndexes]
ComposedColumns(colIndexes) ==
    <<"Wavelength">> \o [i \in 1..Len(colIndexes) |-> ExpLabel(colIndexes[i])]

\* [*range(0, len(self.getExpList()))]
RangeList(n) == [i \in 1..n |-> i - 1]

\* ------------------------------------------------- SpectGroup.__Compose
\* What __Compose(colIndexes) does in the current state on the group with the
\* experiment list list and the composed cache cache: the exception it raises
\* (or None), and the records' tables and the composed cache after it.
\* With one experiment in the list reduce returns that experiment's own
\* DataFrame, so the assignment to tmp_data.columns relabels the experiment's
\* table as well.
UnloadedAt(list, colIndexes) ==
    {i \in 1..Len(colIndexes) : ~isLoaded(list[colIndexes[i] + 1])}

\* the loop over colIndexes stopping at the last experiment that is not loaded
FirstUnloaded_last(list, colIndexes) ==
    colIndexes[CHOOSE i \in UnloadedAt(list, colIndexes) :
                   \A j \in UnloadedAt(list, colIndexes) : i >= j]

\* the index at which the loop over colIndexes raises
FirstUnloaded(list, colIndexes) ==
    colIndexes[CHOOSE i \in UnloadedAt(list, colIndexes) :
                   \A j \in UnloadedAt(list, colIndexes) : i <= j]

Compose_(list, cache, colIndexes) ==
    LET frames == [i \in 1..Len(list) |-> exp_data[list[i]]]
        tmp_data == Frame(ComposedColumns(colIndexes), reduce(frames).rows)
    IN  IF UnloadedAt(list, colIndexes) # {}
        THEN [err |-> IndexError_("ValueError", FirstUnloaded(list, colIndexes)),
              exp_data |-> exp_data, data |-> cache]
        ELSE IF Len(list) = 0
        THEN [err |-> Error("TypeError"), exp_data |-> exp_data, data |-> cache]
        ELSE [err |-> None,
              exp_data |-> IF Len(list) = 1
                           THEN [exp_data EXCEPT ![list[1]] = tmp_data]
                           ELSE exp_data,
              data |-> tmp_data]

\* ------------------------------------------------- SpectGroup.genStats
\* the minimum taken to be the first value
SeqMin_first(s) == s[1]

RECURSIVE SeqMin(_)
SeqMin(s) == IF Len(s) = 1 THEN s[1]
             ELSE LET m == SeqMin(Tail(s)) IN IF s[1] <= m THEN s[1] ELSE m

RECURSIVE SeqMax(_)
SeqMax(s) == IF Len(s) = 1 THEN s[1]
             ELSE LET m == SeqMax(Tail(s)) IN IF s[1] >= m THEN s[1] ELSE m

RECURSIVE SeqSum(_)
SeqSum(s) == IF s = <<>> THEN 0 ELSE s[1] + SeqSum(Tail(s))

RECURSIVE SeqSumSq(_)
SeqSumSq(s) == IF s = <<>> THEN 0 ELSE s[1] * s[1] + SeqSumSq(Tail(s))

\* A statistic is a fraction <<numerator, denominator>>, and NaN is <<0, 0>>.
NaN == <<0, 0>>

\* the row with the std of the population (ddof = 0)
StatsRow_population(row) ==
    LET vals == Tail(row)
        n == Len(vals)
    IN  << row[1],
           IF n = 0 THEN NaN ELSE <<SeqMin(vals), 1>>,
           IF n = 0 THEN NaN ELSE <<SeqMax(vals), 1>>,
           IF n = 0 THEN NaN ELSE <<SeqSum(vals), n>>,
           IF n = 0 THEN NaN
           ELSE <<n * SeqSumSq(vals) - SeqSum(vals) * SeqSum(vals), n * n>> >>

\* One row of the statistics table: min, max and mean of the row's values, and
\* the std (ddof = 1) given by its square, the fraction
\* <<n * sum of squares - sum^2, n * (n - 1)>>.  The std of fewer than two
\* values is NaN, and so is every statistic of no value.
StatsRow(row) ==
    LET vals == Tail(row)
        n == Len(vals)
    IN  << row[1],
           IF n = 0 THEN NaN ELSE <<SeqMin(vals), 1>>,
           IF n = 0 THEN NaN ELSE <<SeqMax(vals), 1>>,
           IF n = 0 THEN NaN ELSE <<SeqSum(vals), n>>,
           IF n < 2 THEN NaN
           ELSE <<n * SeqSumSq(vals) - SeqSum(vals) * SeqSum(vals), n * (n - 1)>> >>

\* the statistics with the rows in the opposite order
StatsOf_reversed(d) ==
    Frame(<<"Wavelength", "min", "max", "mean", "std">>,
          [i \in 1..Len(d.rows) |-> StatsRow(d.rows[Len(d.rows) + 1 - i])])

\* tmp_stats of genStats for the composed table d
StatsOf(d) ==
    Frame(<<"Wavelength", "min", "max", "mean", "std">>,
          [i \in 1..Len(d.rows) |-> StatsRow(d.rows[i])])

\* ---------------------------------------------------------- the calls
\* what a call that raised leaves behind: nothing but the exception
Raise(name, e) ==
    /\ op' = name
    /\ arg' = None
    /\ err' = e
    /\ UNCHANGED <<exp_data, expList, data, stats, listOps, exp_meta, subvars, exp_attrs, axis_titles, group_name>>

\* SpectExp.setData that keeps the labels of the table it is given
Exp_setData_keepLabels(e, newData) ==
    IF Len(newData.columns) # 2
    THEN Raise("SpectExp.setData", Error("AssertionError"))
    ELSE /\ exp_data' = [exp_data EXCEPT ![e] = newData]
         /\ op' = "SpectExp.setData"
         /\ arg' = [exp |-> e]
         /\ err' = None
         /\ UNCHANGED <<expList, data, stats, listOps, exp_meta, subvars, exp_attrs, axis_titles, group_name>>

\* SpectExp.setData(newData) on experiment e
Exp_setData(e, newData) ==
    IF Len(newData.columns) # 2
    THEN Raise("SpectExp.setData", Error("AssertionError"))
    ELSE /\ exp_data' = [exp_data EXCEPT
                            ![e] = Frame(<<"Wavelength", newData.columns[2]>>, newData.rows)]
         /\ op' = "SpectExp.setData"
         /\ arg' = [exp |-> e]
         /\ err' = None
         /\ UNCHANGED <<expList, data, stats, listOps, exp_meta, subvars, exp_attrs, axis_titles, group_name>>

\* setExpList without the reset of the composed cache
setExpList_keepData(newList) ==
    /\ \A i \in 1..Len(newList) : newList[i] \in Exps
    /\ expList' = newList
    /\ stats' = None
    /\ op' = "setExpList"
    /\ arg' = [list |-> newList]
    /\ err' = None
    /\ UNCHANGED <<exp_data, data, listOps, exp_meta, subvars, exp_attrs, axis_titles, group_name>>

\* setExpList that resets the caches before it looks at the list
setExpList_resetFirst(newList) ==
    LET bad == {i \in 1..Len(newList) : newList[i] \notin Exps}
        first == CHOOSE i \in bad : \A j \in bad : i <= j
    IN  /\ data' = None
        /\ stats' = None
        /\ op' = "setExpList"
        /\ IF bad # {}
           THEN /\ err' = IndexError_("TypeError", first - 1)
                /\ arg' = None
                /\ UNCHANGED expList
           ELSE /\ err' = None
                /\ arg' = [list |-> newList]
                /\ expList' = newList
        /\ UNCHANGED <<exp_data, listOps, exp_meta, subvars, exp_attrs, axis_titles, group_name>>

\* SpectGroup.setExpList(expList)
setExpList(newList) ==
    LET bad == {i \in 1..Len(newList) : newList[i] \notin Exps}
        first == CHOOSE i \in bad : \A j \in bad : i <= j
    IN  IF bad # {}
        THEN Raise("setExpList", IndexError_("TypeError", first - 1))
        ELSE /\ expList' = newList
             /\ data' = None
             /\ stats' = None
             /\ op' = "setExpList"
             /\ arg' = [list |-> newList]
             /\ err' = None
             /\ UNCHANGED <<exp_data, listOps, exp_meta, subvars, exp_attrs, axis_titles, group_name>>

\* addExp without the reset of the statistics cache
addExp_keepStats(exp) ==
    /\ exp \in Exps
    /\ expList' = Append(expList, exp)
    /\ data' = None
    /\ op' = "addExp"
    /\ arg' = [exp |-> exp]
    /\ err' = None
    /\ UNCHANGED <<exp_data, stats, listOps, exp_meta, subvars, exp_attrs, axis_titles, group_name>>

\* SpectGroup.addExp(exp)
addExp(exp) ==
    IF exp \notin Exps
    THEN Raise("addExp", Error("AssertionError"))
    ELSE /\ expList' = Append(expList, exp)
         /\ data' = None
         /\ stats' = None
         /\ op' = "addExp"
         /\ arg' = [exp |-> exp]
         /\ err' = None
         /\ UNCHANGED <<exp_data, listOps, exp_meta, subvars, exp_attrs, axis_titles, group_name>>

\* SpectGroup.setData(newData)
setData(newData) ==
    IF "Wavelength" \notin Range(newData.columns)
    THEN Raise("setData", Error("AssertionError"))
    ELSE /\ data' = newData
         /\ op' = "setData"
         /\ arg' = None
         /\ err' = None
         /\ UNCHANGED <<exp_data, expList, stats, listOps, exp_meta, subvars, exp_attrs, axis_titles, group_name>>

\* SpectGroup.setStats(newStats)
setStats(newStats) ==
    /\ stats' = newStats
    /\ op' = "setStats"
    /\ arg' = None
    /\ err' = None
    /\ UNCHANGED <<exp_data, expList, data, listOps, exp_meta, subvars, exp_attrs, axis_titles, group_name>>

\* Compose() that drops the composed cache before it joins
Compose_clearFirst ==
    LET r == Compose_(expList, data, RangeList(Len(expList)))
    IN  /\ exp_data' = r.exp_data
        /\ data' = IF r.err = None THEN r.data ELSE None
        /\ op' = "Compose"
        /\ arg' = None
        /\ err' = r.err
        /\ UNCHANGED <<expList, stats, listOps, exp_meta, subvars, exp_attrs, axis_titles, group_name>>

\* Compose() that drops a table cached already instead of building it again
Compose_toggle ==
    LET r == Compose_(expList, data, RangeList(Len(expList)))
    IN  /\ exp_data' = r.exp_data
        /\ data' = IF r.err = None /\ isComposed THEN None ELSE r.data
        /\ op' = "Compose"
        /\ arg' = None
        /\ err' = r.err
        /\ UNCHANGED <<expList, stats, listOps, exp_meta, subvars, exp_attrs, axis_titles, group_name>>

\* SpectGroup.Compose()
Compose ==
    LET r == Compose_(expList, data, RangeList(Len(expList)))
    IN  /\ exp_data' = r.exp_data
        /\ data' = r.data
        /\ op' = "Compose"
        /\ arg' = IF r.err = None THEN [again |-> op = "Compose" /\ err = None] ELSE None
        /\ err' = r.err
        /\ UNCHANGED <<expList, stats, listOps, exp_meta, subvars, exp_attrs, axis_titles, group_name>>

\* SpectGroup.genStats()
genStats ==
    LET r == IF ~isComposed THEN Compose_(expList, data, RangeList(Len(expList)))
             ELSE [err |-> None, exp_data |-> exp_data, data |-> data]
    IN  /\ exp_data' = r.exp_data
        /\ data' = r.data
        /\ stats' = IF r.err = None THEN StatsOf(r.data) ELSE stats
        /\ op' = "genStats"
        /\ arg' = IF r.err = None THEN [compose |-> ~isComposed] ELSE None
        /\ err' = r.err
        /\ UNCHANGED <<expList, listOps, exp_meta, subvars, exp_attrs, axis_titles, group_name>>

\* The list SpectGroup holds is the caller's own list object (setExpList keeps
\* the reference, getExpList() returns it): the caller appends an experiment
\* to it, or pops its last element.
List_append(exp) ==
    /\ expList' = Append(expList, exp)
    /\ listOps' = listOps + 1
    /\ op' = "list.append"
    /\ arg' = [exp |-> exp]
    /\ err' = None
    /\ UNCHANGED <<exp_data, data, stats, exp_meta, subvars, exp_attrs, axis_titles, group_name>>

List_pop ==
    /\ expList # <<>>
    /\ expList' = SubSeq(expList, 1, Len(expList) - 1)
    /\ listOps' = listOps + 1
    /\ op' = "list.pop"
    /\ arg' = None
    /\ err' = None
    /\ UNCHANGED <<exp_data, data, stats, exp_meta, subvars, exp_attrs, axis_titles, group_name>>

\* ---------------------------------------------------- SpectExp.readFile
\* A source file is the sequence of its lines.  A line is a text, or a data
\* row of two numbers separated by the delimiter; a line is compared as a
\* whole, its end of line included.
TextLine(t) == [text |-> t]
RowLine(k, v) == [fields |-> <<k, v>>]

\* default_read_dict["begin_line"] and default_read_dict["col_names"]
BeginLine == TextLine(">>>>>Begin Spectral Data<<<<<")
ColNames == <<"Wavelength", "Measure">>

\* The files: two lines of metadata, the begin line and three rows; the begin
\* line and one row; the begin line as the last line; no begin line; rows only.
FileFull ==
    << TextLine("Integration Time"), TextLine("Date"), BeginLine,
       RowLine(1, 11), RowLine(2, 12), RowLine(3, 13) >>
FileOneRow == << BeginLine, RowLine(2, 22) >>
FileNoRow == << TextLine("Date"), BeginLine >>
FileNoBegin == << TextLine("Date"), RowLine(1, 11) >>
FileRows == << RowLine(1, 11), RowLine(2, 12) >>

\* the text of a number, as read_csv makes a column label of a header field
Str(x) ==
    CASE x = 1 -> "1" [] x = 2 -> "2" [] x = 3 -> "3"
      [] x = 11 -> "11" [] x = 12 -> "12" [] x = 13 -> "13" [] x = 22 -> "22"

\* read_csv that takes the first line as the header whatever names is
read_csv_header(lines, names) ==
    IF Len(lines) = 0
    THEN [err |-> Error("EmptyDataError"), frame |-> None]
    ELSE [err |-> None,
          frame |-> Frame(IF names # None THEN names
                          ELSE [j \in 1..2 |-> Str(lines[1].fields[j])],
                          [i \in 1..(Len(lines) - 1) |-> lines[i + 1].fields])]

\* pd.read_csv(lines, sep = delim, names = names) on lines that are data rows:
\* with names every line is a row; without, the first line is the header and
\* a file without a line raises EmptyDataError.
read_csv(lines, names) ==
    IF names # None
    THEN [err |-> None,
          frame |-> Frame(names, [i \in 1..Len(lines) |-> lines[i].fields])]
    ELSE IF Len(lines) = 0
    THEN [err |-> Error("EmptyDataError"), frame |-> None]
    ELSE [err |-> None,
          frame |-> Frame([j \in 1..2 |-> Str(lines[1].fields[j])],
                          [i \in 1..(Len(lines) - 1) |-> lines[i + 1].fields])]

\* the position of the first line that equals begin_line, 0 if there is none
BeginAt(file, begin_line) ==
    IF \E i \in 1..Len(file) : file[i] = begin_line
    THEN CHOOSE i \in 1..Len(file) :
             /\ file[i] = begin_line
             /\ \A j \in 1..(i - 1) : file[j] # begin_line
    ELSE 0

\* What readFile does with the lines of the source file: the lines it passes
\* to setMetaInfo, and the result of read_csv, None if read_csv is not called.
\* Without begin_line the whole file goes to read_csv.  With begin_line the
\* loop over the lines collects every line up to and including the begin line;
\* its next turn takes one more line from the file and only then hands the
\* file, from the line after that one, to read_csv.  If the loop ends before
\* that turn (no begin line, or the begin line is the last line) pandas_read
\* is never assigned.
ReadLines(file, begin_line, col_names) ==
    LET p == BeginAt(file, begin_line)
    IN  IF begin_line = None
        THEN [meta_list |-> <<>>, pandas_read |-> read_csv(file, col_names)]
        ELSE IF p = 0 \/ p = Len(file)
        THEN [meta_list |-> file, pandas_read |-> None]
        ELSE [meta_list |-> SubSeq(file, 1, p),
              pandas_read |-> read_csv(SubSeq(file, p + 2, Len(file)), col_names)]

\* the exception readFile raises when it is called without a source file:
\* read_csv(None) raises ValueError, open(None) raises TypeError
NoSource(begin_line) ==
    IF begin_line = None THEN Error("ValueError") ELSE Error("TypeError")

\* readFile that gives up the table it holds when no table was read
readFile_clearOnFail(e, file, begin_line, col_names) ==
    LET r == ReadLines(file, begin_line, col_names)
        read == r.pandas_read
    IN  /\ op' = "readFile"
        /\ arg' = [exp |-> e, file |-> file, begin_line |-> begin_line,
                   col_names |-> col_names]
        /\ IF exp_attrs[e].sourceFile = None
           THEN /\ err' = NoSource(begin_line)
                /\ UNCHANGED <<exp_data, exp_meta>>
           ELSE IF read # None /\ read.err # None
           THEN /\ err' = read.err
                /\ UNCHANGED <<exp_data, exp_meta>>
           ELSE /\ exp_meta' = [exp_meta EXCEPT ![e] = List(r.meta_list)]
                /\ IF read = None
                   THEN /\ err' = Error("UnboundLocalError")
                        /\ exp_data' = [exp_data EXCEPT ![e] = None]
                   ELSE IF Len(read.frame.columns) # 2
                   THEN /\ err' = Error("AssertionError")
                        /\ UNCHANGED exp_data
                   ELSE /\ err' = None
                        /\ exp_data' = [exp_data EXCEPT ![e] =
                               Frame(<<"Wavelength", read.frame.columns[2]>>,
                                     read.frame.rows)]
        /\ UNCHANGED <<expList, data, stats, listOps, subvars, exp_attrs, axis_titles, group_name>>

\* SpectExp.readFile(delim, begin_line, convert_dict, col_names) on experiment
\* e, whose source file holds the lines file.  An exception of read_csv leaves
\* the call before setMetaInfo; a pandas_read that was never assigned raises
\* UnboundLocalError after setMetaInfo, and so does the assertion of setData.
readFile(e, file, begin_line, col_names) ==
    LET r == ReadLines(file, begin_line, col_names)
        read == r.pandas_read
    IN  /\ op' = "readFile"
        /\ arg' = [exp |-> e, file |-> file, begin_line |-> begin_line,
                   col_names |-> col_names]
        /\ IF exp_attrs[e].sourceFile = None
           THEN /\ err' = NoSource(begin_line)
                /\ UNCHANGED <<exp_data, exp_meta>>
           ELSE IF read # None /\ read.err # None
           THEN /\ err' = read.err
                /\ UNCHANGED <<exp_data, exp_meta>>
           ELSE /\ exp_meta' = [exp_meta EXCEPT ![e] = List(r.meta_list)]
                /\ IF read = None
                   THEN /\ err' = Error("UnboundLocalError")
                        /\ UNCHANGED exp_data
                   ELSE IF Len(read.frame.columns) # 2
                   THEN /\ err' = Error("AssertionError")
                        /\ UNCHANGED exp_data
                   ELSE /\ err' = None
                        /\ exp_data' = [exp_data EXCEPT ![e] =
                               Frame(<<"Wavelength", read.frame.columns[2]>>,
                                     read.frame.rows)]
        /\ UNCHANGED <<expList, data, stats, listOps, subvars, exp_attrs, axis_titles, group_name>>

\* ------------------------------------------- the setters of SpectExp
\* SpectExp.setMetaInfo(newMeta) on experiment e, newMeta a list
Exp_setMetaInfo(e, newMeta) ==
    IF \E i \in 1..Len(newMeta) : ~IsStr(newMeta[i])
    THEN Raise("setMetaInfo", Error("AssertionError"))
    ELSE /\ exp_meta' = [exp_meta EXCEPT ![e] = List(newMeta)]
         /\ op' = "setMetaInfo"
         /\ arg' = [exp |-> e]
         /\ err' = None
         /\ UNCHANGED <<exp_data, expList, data, stats, listOps, exp_attrs,
                        axis_titles, group_name, subvars>>

\* SpectExp.setName(newName) on experiment e
Exp_setName(e, newName) ==
    IF ~IsStr(newName)
    THEN Raise("setName", Error("AssertionError"))
    ELSE /\ exp_attrs' = [exp_attrs EXCEPT ![e].name = newName]
         /\ op' = "setName"
         /\ arg' = [exp |-> e]
         /\ err' = None
         /\ UNCHANGED <<exp_data, expList, data, stats, listOps, exp_meta,
                        axis_titles, group_name, subvars>>

\* the paths of the file system: a text file that exists, and no file
SourceFile == PyStr("source.txt")
MissingFile == PyStr("missing.txt")

\* SpectExp.setSource(newSource) on experiment e: a str becomes a path; a path
\* that does not exist raises ValueError, anything else but a path TypeError
Exp_setSource(e, newSource) ==
    IF ~IsStr(newSource)
    THEN Raise("setSource", Error("TypeError"))
    ELSE IF newSource # SourceFile
    THEN Raise("setSource", Error("ValueError"))
    ELSE /\ exp_attrs' = [exp_attrs EXCEPT ![e].sourceFile = newSource]
         /\ op' = "setSource"
         /\ arg' = [exp |-> e]
         /\ err' = None
         /\ UNCHANGED <<exp_data, expList, data, stats, listOps, exp_meta,
                        axis_titles, group_name, subvars>>

\* ------------------------------------------------------- the subgroups
\* getName(), getPlotConf() and getOutPath() of the group; SpectGroup() sets
\* the plot configuration and the output path, no call modelled here changes
\* them
getName == group_name
getPlotConf == [plotConf |-> "default"]
getOutPath == None

\* SpectGroup.genSubgroup(groupDef).  The index lists are taken in their order:
\* an index of the list that is not an int fails the assertion, and then the
\* experiment list is subscripted with the index list itself, which raises the
\* TypeError of a list subscripted with a list.  Only an empty groupDef
\* returns, with no subgroup.
genSubgroup(groupDef) ==
    /\ op' = "genSubgroup"
    /\ arg' = IF Len(groupDef) = 0
              THEN [groupDef |-> groupDef, subgroups |-> <<>>]
              ELSE [groupDef |-> groupDef]
    /\ err' = IF Len(groupDef) = 0 THEN None
              ELSE IF \E j \in 1..Len(groupDef[1]) : groupDef[1][j] = NotInt
              THEN Error("AssertionError")
              ELSE Error("TypeError")
    /\ UNCHANGED <<exp_data, expList, data, stats, listOps, exp_meta, subvars, exp_attrs, axis_titles, group_name>>

\* SpectGroup.getExpList(colNums): the exception it raises (or None) and the
\* list it returns, a list of its own.  A negative index counts from the end
\* of the list.
getExpList_(colNums) ==
    LET n == Len(expList)
        failed == {i \in 1..Len(colNums) :
                      \/ colNums[i] = NotInt
                      \/ colNums[i] >= n
                      \/ colNums[i] < -n}
        first == CHOOSE i \in failed : \A j \in failed : i <= j
    IN  IF failed = {}
        THEN [err |-> None,
              list |-> [i \in 1..Len(colNums) |->
                           expList[IF colNums[i] >= 0 THEN colNums[i] + 1
                                   ELSE n + colNums[i] + 1]]]
        ELSE [err |-> IF colNums[first] = NotInt \/ colNums[first] >= n
                      THEN Error("AssertionError")
                      ELSE Error("IndexError"),
              list |-> <<>>]

\* SpectGroup(g.getExpList(colNums), config, outputPath, name): the second
\* group built anew over experiments of the first, which is what genSubgroup
\* is written to do for one index list
Subgroup(colNums) ==
    LET r == getExpList_(colNums)
    IN  IF r.err # None
        THEN Raise("getExpList", r.err)
        ELSE /\ sub_expList' = r.list
             /\ sub_data' = None
             /\ sub_stats' = None
             /\ op' = "SpectGroup"
             /\ arg' = [colNums |-> colNums]
             /\ err' = None
             /\ UNCHANGED <<exp_data, expList, data, stats, listOps, exp_meta, exp_attrs, axis_titles, group_name>>

\* Compose() of the second group that stores the table in the first as well
Sub_Compose_shared ==
    LET r == Compose_(sub_expList, sub_data, RangeList(Len(sub_expList)))
    IN  /\ exp_data' = r.exp_data
        /\ sub_data' = r.data
        /\ data' = r.data
        /\ op' = "sub.Compose"
        /\ arg' = None
        /\ err' = r.err
        /\ UNCHANGED <<expList, stats, listOps, exp_meta, sub_expList, sub_stats, exp_attrs, axis_titles, group_name>>

\* Compose() of the second group
Sub_Compose ==
    LET r == Compose_(sub_expList, sub_data, RangeList(Len(sub_expList)))
    IN  /\ exp_data' = r.exp_data
        /\ sub_data' = r.data
        /\ op' = "sub.Compose"
        /\ arg' = None
        /\ err' = r.err
        /\ UNCHANGED <<expList, data, stats, listOps, exp_meta, sub_expList, sub_stats, exp_attrs, axis_titles, group_name>>

\* genStats() of the second group
Sub_genStats ==
    LET r == IF sub_data = None
             THEN Compose_(sub_expList, sub_data, RangeList(Len(sub_expList)))
             ELSE [err |-> None, exp_data |-> exp_data, data |-> sub_data]
    IN  /\ exp_data' = r.exp_data
        /\ sub_data' = r.data
        /\ sub_stats' = IF r.err = None THEN StatsOf(r.data) ELSE sub_stats
        /\ op' = "sub.genStats"
        /\ arg' = None
        /\ err' = r.err
        /\ UNCHANGED <<expList, data, stats, listOps, exp_meta, sub_expList, exp_attrs, axis_titles, group_name>>

\* ------------------------------------------------------ specification
\* the lists a caller passes to setExpList: lists of different experiments, and
\* shorter lists that end with an object that is no SpectExp (addExp is what
\* puts an experiment into the list twice)
ListInputs ==
    LET different == {l \in SeqsUpTo(Exps, MaxExps) : Cardinality(Range(l)) = Len(l)}
    IN  different \cup {Append(l, Junk) : l \in {d \in different : Len(d) <= MaxExps - 2}}

\* SpectExp() for every experiment, SpectGroup() for the two groups, plotConf()
Init ==
    /\ exp_data = [e \in Exps |-> None]
    /\ expList = <<>>
    /\ data = None
    /\ stats = None
    /\ listOps = 0
    /\ exp_meta = [e \in Exps |-> None]
    /\ exp_attrs = [e \in Exps |-> [name |-> None, sourceFile |-> None]]
    /\ axis_titles = <<None, None>>
    /\ group_name = None
    /\ sub_expList = <<>>
    /\ sub_data = None
    /\ sub_stats = None
    /\ op = "__init__"
    /\ arg = None
    /\ err = None

\* Every call of the group and of an experiment is open to the caller at any
\* time, the load of an experiment that is loaded already included.  The list
\* never grows beyond MaxExps, and the caller changes the list through its own
\* reference at most MaxListOps times.
Next ==
    \/ \E e \in Exps : \E f \in InputFrames(e) : Exp_setData(e, f)
    \/ \E l \in ListInputs : setExpList(l)
    \/ \E x \in Exps \cup {Junk} : Len(expList) < MaxExps /\ addExp(x)
    \/ \E f \in {UserData, UserBadData} : setData(f)
    \/ setStats(UserStats)
    \/ Compose
    \/ genStats
    \/ \E e \in Exps : listOps < MaxListOps /\ Len(expList) < MaxExps /\ List_append(e)
    \/ listOps < MaxListOps /\ List_pop

Spec == Init /\ [][Next]_vars

\* The index lists a caller passes to genSubgroup: in range, out of range,
\* negative, not an int.
GroupDefs ==
    { <<>>, << <<0>> >>, << <<1, 0>>, <<0>> >>, << <<MaxExps>> >>, << <<-1>> >>,
      << <<NotInt>> >>, << <<0>>, <<NotInt>> >>, << <<0, NotInt>> >> }

\* the index lists a caller passes to getExpList
ColNums ==
    SeqsUpTo(0..(MaxExps - 1), MaxSubExps) \cup {<<-1>>, <<MaxExps>>, <<NotInt>>}

\* A group and genSubgroup.  The group is filled by addExp with experiments
\* that are loaded once, and composed at any time.
NextGen ==
    \/ \E e \in Exps : \E f \in InputFrames(e) : ~isLoaded(e) /\ Exp_setData(e, f)
    \/ \E x \in Exps : Len(expList) < MaxExps /\ addExp(x)
    \/ Compose
    \/ genStats
    \/ \E g \in GroupDefs : genSubgroup(g)

SpecGen == Init /\ [][NextGen]_vars

\* ------------------------------------------------------ SpectGroup.plot
\* SpectGroup.setName(newName)
setName(newName) ==
    IF ~IsStr(newName)
    THEN Raise("setName", Error("AssertionError"))
    ELSE /\ group_name' = newName
         /\ op' = "setName"
         /\ arg' = None
         /\ err' = None
         /\ UNCHANGED <<exp_data, expList, data, stats, listOps, exp_meta,
                        exp_attrs, axis_titles, subvars>>

\* the plotting modes a caller passes, and mode.lower()
Modes == {"stack", "range", "Range", "1std", "1STD", "mean"}
Lower(mode) ==
    CASE mode = "Range" -> "range"
      [] mode = "1STD" -> "1std"
      [] OTHER -> mode

\* what exp.plot(ax, None) raises for experiment e: the table of an
\* experiment that is not loaded is None, which has no columns; without a name
\* legendNameGen parses the name of the source file, which is None or "source.txt"
ExpPlotError(e) ==
    IF ~isLoaded(e) THEN Error("TypeError")
    ELSE IF exp_attrs[e].name # None THEN None
    ELSE IF exp_attrs[e].sourceFile = None THEN Error("AttributeError")
    ELSE Error("ValueError")

\* what the loop of the mode "stack" raises: the exception of the first
\* experiment of the list that raises one
StackError ==
    LET bad == {i \in 1..Len(expList) : ExpPlotError(expList[i]) # None}
    IN  IF bad = {} THEN None
        ELSE ExpPlotError(expList[CHOOSE i \in bad : \A j \in bad : i <= j])

\* what self.getName() + " RANGE" raises
LabelError == IF getName = None THEN Error("TypeError") ELSE None

\* plot that compares the mode as it is written
plot_caseSensitive(mode) ==
    LET r == IF ~isComposed THEN Compose_(expList, data, RangeList(Len(expList)))
             ELSE [err |-> None, exp_data |-> exp_data, data |-> data]
    IN  /\ op' = "plot"
        /\ arg' = [mode |-> mode]
        /\ IF mode = "stack"
           THEN /\ err' = StackError
                /\ UNCHANGED <<exp_data, data, stats>>
           ELSE IF mode \in {"range", "1std"}
           THEN IF isStats
                THEN /\ err' = LabelError
                     /\ UNCHANGED <<exp_data, data, stats>>
                ELSE /\ exp_data' = r.exp_data
                     /\ data' = r.data
                     /\ stats' = IF r.err = None THEN StatsOf(r.data) ELSE stats
                     /\ err' = IF r.err = None THEN LabelError ELSE r.err
           ELSE /\ err' = Error("ValueError")
                /\ UNCHANGED <<exp_data, data, stats>>
        /\ UNCHANGED <<expList, listOps, exp_meta, exp_attrs, axis_titles,
                       group_name, subvars>>

\* SpectGroup.plot(mode, ax, None): __plotSwitch(mode, ax), then ax.legend().
\* The modes "range" and "1std" call genStats() unless the statistics are set,
\* and build the label from the name of the group after that.
plot(mode) ==
    LET r == IF ~isComposed THEN Compose_(expList, data, RangeList(Len(expList)))
             ELSE [err |-> None, exp_data |-> exp_data, data |-> data]
    IN  /\ op' = "plot"
        /\ arg' = [mode |-> mode]
        /\ IF Lower(mode) = "stack"
           THEN /\ err' = StackError
                /\ UNCHANGED <<exp_data, data, stats>>
           ELSE IF Lower(mode) \in {"range", "1std"}
           THEN IF isStats
                THEN /\ err' = LabelError
                     /\ UNCHANGED <<exp_data, data, stats>>
                ELSE /\ exp_data' = r.exp_data
                     /\ data' = r.data
                     /\ stats' = IF r.err = None THEN StatsOf(r.data) ELSE stats
                     /\ err' = IF r.err = None THEN LabelError ELSE r.err
           ELSE /\ err' = Error("ValueError")
                /\ UNCHANGED <<exp_data, data, stats>>
        /\ UNCHANGED <<expList, listOps, exp_meta, exp_attrs, axis_titles,
                       group_name, subvars>>

\* A group that is filled by addExp with experiments loaded once and named
\* at any time, and plotted in every mode.
NextPlot ==
    \/ \E e \in Exps : \E f \in InputFrames(e) : ~isLoaded(e) /\ Exp_setData(e, f)
    \/ \E e \in Exps : exp_attrs[e].name = None /\ Exp_setName(e, PyStr("exp"))
    \/ \E x \in Exps : Len(expList) < MaxExps /\ addExp(x)
    \/ \E n \in {PyStr("group"), NotStr} : setName(n)
    \/ Compose
    \/ \E mode \in Modes : plot(mode)

SpecPlot == Init /\ [][NextPlot]_vars

\* ------------------------------------------- SpectGroup.__init__ (JSON)
\* range(start, stop, step) for a step that is not 0
RECURSIVE range(_, _, _)
range(start, stop, step) ==
    IF (step > 0 /\ start < stop) \/ (step < 0 /\ start > stop)
    THEN <<start>> \o range(start + step, stop, step)
    ELSE <<>>

\* the numbers of an entry's range, end of the range left out
RangeNums_exclusive(r) ==
    IF Len(r) = 3
    THEN IF r[3] = 0 THEN [err |-> Error("ValueError"), nums |-> <<>>]
         ELSE [err |-> None, nums |-> range(r[1], r[2], r[3])]
    ELSE IF Len(r) = 2
    THEN [err |-> None, nums |-> range(r[1], r[2], 1)]
    ELSE [err |-> Error("ValueError"), nums |-> <<>>]

\* the numbers the loop over an entry's range runs through: range() raises
\* ValueError for the step 0, the constructor for a range of another length
RangeNums(r) ==
    IF Len(r) = 3
    THEN IF r[3] = 0 THEN [err |-> Error("ValueError"), nums |-> <<>>]
         ELSE [err |-> None, nums |-> range(r[1], r[2] + 1, r[3])]
    ELSE IF Len(r) = 2
    THEN [err |-> None, nums |-> range(r[1], r[2] + 1, 1)]
    ELSE [err |-> Error("ValueError"), nums |-> <<>>]

\* The source files of the templates: one for every number up to MaxNum.
\* SpectExp(config, sourceFile, outputPath, name) raises ValueError from
\* setSource for a file that does not exist.
SourceExists(num) == num \in 1..MaxNum

\* the experiments the constructor builds for the entry at position i of the
\* JSON object: one for an entry without range, one per number otherwise
EntryExps(entry, i) ==
    IF "range" \notin DOMAIN entry
    THEN [err |-> None, exps |-> << [entry |-> i] >>]
    ELSE LET r == RangeNums(entry.range)
         IN  IF r.err # None THEN [err |-> r.err, exps |-> <<>>]
             ELSE IF \E k \in 1..Len(r.nums) : ~SourceExists(r.nums[k])
             THEN [err |-> Error("ValueError"), exps |-> <<>>]
             ELSE [err |-> None,
                   exps |-> [k \in 1..Len(r.nums) |-> [entry |-> i, num |-> r.nums[k]]]]

\* expList of the constructor after the entries 1..i of jsonDict, or the
\* exception that ended it
RECURSIVE JsonExps(_, _)
JsonExps(jsonDict, i) ==
    IF i = 0 THEN [err |-> None, exps |-> <<>>]
    ELSE LET before == JsonExps(jsonDict, i - 1)
             this == EntryExps(jsonDict[i], i)
         IN  IF before.err # None THEN before
             ELSE IF this.err # None THEN this
             ELSE [err |-> None, exps |-> before.exps \o this.exps]

\* SpectGroup(jsonFileList, config, outputPath, name) for a file that holds
\* the JSON object jsonDict, its entries in the order of the file: the group
\* it builds, None when it raises
Json_init(jsonDict) ==
    LET r == JsonExps(jsonDict, Len(jsonDict))
    IN  /\ op' = "SpectGroup(json)"
        /\ arg' = [jsonDict |-> jsonDict,
                   group |-> IF r.err # None THEN None ELSE [expList |-> r.exps]]
        /\ err' = r.err
        /\ UNCHANGED <<exp_data, expList, data, stats, listOps, exp_meta,
                       exp_attrs, axis_titles, group_name, subvars>>

\* The entries of a JSON object: without range, or with a range of one to
\* four integers.
MaxEntries == 2
Steps == {-1, 0, 1, 2}
Ranges ==
    {<<a>> : a \in 1..2}
    \cup {<<a, b>> : a \in 1..2, b \in 0..(MaxNum + 1)}
    \cup {<<a, b, s>> : a \in 1..2, b \in 0..(MaxNum + 1), s \in Steps}
    \cup {<<1, MaxNum, 1, 1>>}
Entries == {[name |-> "exp"]} \cup {[name |-> "exp{}", range |-> r] : r \in Ranges}
JsonDicts(n) == SeqsUpTo(Entries, n) \ {<<>>}

\* the constructor runs once, on any of the JSON objects
NextJson == op = "__init__" /\ \E d \in JsonDicts(MaxEntries) : Json_init(d)

SpecJson == Init /\ [][NextJson]_vars

\* ------------------------------------------------ plotConf.setAxisTitles
\* an object that is no list and no tuple
NotList == [number |-> 5]
IsList(x) == "list" \in DOMAIN x

\* setAxisTitles(new_titles) of the plotConf object: every entry is stored
\* as soon as the loop has found it to be a str
RECURSIVE StoreTitles(_, _, _)
StoreTitles(titles, new_titles, index) ==
    IF index > Len(new_titles) THEN [err |-> None, titles |-> titles]
    ELSE IF ~IsStr(new_titles[index])
    THEN [err |-> Error("ValueError"), titles |-> titles]
    ELSE StoreTitles([titles EXCEPT ![index] = new_titles[index]],
                     new_titles, index + 1)

setAxisTitles(new_titles) ==
    LET r == IF ~IsList(new_titles)
             THEN [err |-> Error("TypeError"), titles |-> axis_titles]
             ELSE IF Len(new_titles.list) > 2
             THEN [err |-> Error("ValueError"), titles |-> axis_titles]
             ELSE StoreTitles(axis_titles, new_titles.list, 1)
    IN  /\ axis_titles' = r.titles
        /\ op' = "setAxisTitles"
        /\ arg' = [new_titles |-> new_titles]
        /\ err' = r.err
        /\ UNCHANGED <<exp_data, expList, data, stats, listOps, exp_meta,
                       exp_attrs, group_name, subvars>>

\* the lists a caller passes: up to MaxTitles entries, a str or not
TitleInputs ==
    {List(l) : l \in SeqsUpTo({PyStr("x"), PyStr("y"), NotStr}, MaxTitles)}
    \cup {NotList}

NextConf == \E t \in TitleInputs : setAxisTitles(t)

SpecConf == Init /\ [][NextConf]_vars

\* The experiments and their source files.  Every experiment has a source
\* file; a call of readFile finds in it one of the files above, read with the
\* begin line or without, with column names or without.
ReadInputs ==
    {[file |-> f, begin_line |-> BeginLine, col_names |-> n] :
        f \in {FileFull, FileOneRow, FileNoRow, FileNoBegin}, n \in {None, ColNames}}
    \cup {[file |-> FileRows, begin_line |-> None, col_names |-> n] :
              n \in {None, ColNames}}

NextRead ==
    \/ \E e \in Exps : \E i \in ReadInputs :
           readFile(e, i.file, i.begin_line, i.col_names)
    \/ \E e \in Exps : \E f \in InputFrames(e) \cup {FrameWide} : Exp_setData(e, f)

\* SpectExp() and setSource(SourceFile) for every experiment
InitRead ==
    /\ exp_data = [e \in Exps |-> None]
    /\ expList = <<>>
    /\ data = None
    /\ stats = None
    /\ listOps = 0
    /\ exp_meta = [e \in Exps |-> None]
    /\ exp_attrs = [e \in Exps |-> [name |-> None, sourceFile |-> SourceFile]]
    /\ axis_titles = <<None, None>>
    /\ group_name = None
    /\ sub_expList = <<>>
    /\ sub_data = None
    /\ sub_stats = None
    /\ op = "setSource"
    /\ arg = None
    /\ err = None

SpecRead == InitRead /\ [][NextRead]_vars

\* One experiment and every call that sets one of its attributes, from
\* SpectExp() on.
AttrReadInputs ==
    { [file |-> FileFull, begin_line |-> BeginLine, col_names |-> ColNames],
      [file |-> FileNoBegin, begin_line |-> BeginLine, col_names |-> ColNames],
      [file |-> FileRows, begin_line |-> None, col_names |-> None] }

NextAttr ==
    \/ \E i \in AttrReadInputs : readFile(1, i.file, i.begin_line, i.col_names)
    \/ \E f \in InputFrames(1) \cup {FrameWide} : Exp_setData(1, f)
    \/ \E m \in {<<>>, <<PyStr("Note")>>, <<PyStr("Note"), NotStr>>} : Exp_setMetaInfo(1, m)
    \/ \E n \in {PyStr("exp"), NotStr} : Exp_setName(1, n)
    \/ \E p \in {SourceFile, MissingFile, NotStr} : Exp_setSource(1, p)

SpecAttr == Init /\ [][NextAttr]_vars

\* Two groups over the same experiments.  The first group is filled by addExp
\* with experiments that are loaded once; both groups are composed and their
\* statistics generated at any time.
NextSub ==
    \/ \E e \in Exps : \E f \in InputFrames(e) : ~isLoaded(e) /\ Exp_setData(e, f)
    \/ \E x \in Exps : Len(expList) < MaxExps /\ addExp(x)
    \/ Compose
    \/ genStats
    \/ \E c \in ColNums : Subgroup(c)
    \/ Sub_Compose
    \/ Sub_genStats

SpecSub == Init /\ [][NextSub]_vars


\* ============================================================== claims
\* the key values a table holds
Keys(f) == {f.rows[i][1] : i \in 1..Len(f.rows)}

\* how many rows of table f carry key k
Count(f, k) == Cardinality({i \in 1..Len(f.rows) : f.rows[i][1] = k})

\* the group's experiments, by position
NExps == Len(expList)
ExpTable(i) == exp_data[expList[i]]
AllLoaded == \A i \in 1..NExps : isLoaded(expList[i])
Unloaded == {i \in 1..NExps : ~isLoaded(expList[i])}

\* the keys every experiment of the group holds
CommonKeys ==
    IF NExps = 0 THEN {}
    ELSE {k \in Keys(ExpTable(1)) : \A i \in 1..NExps : k \in Keys(ExpTable(i))}

\* Compose() has just returned normally
Composed == op = "Compose" /\ err = None

\* C1: after Compose() on N >= 1 loaded experiments a key value is in the
\* composed table if and only if every experiment's table holds it.
C1_InnerJoinKeys ==
    (op = "Compose" /\ NExps >= 1 /\ AllLoaded)
        => (err = None /\ Keys(data) = CommonKeys)

\* a join of two experiments that drops some keys and keeps others
C1_Witness ==
    /\ Composed
    /\ NExps = 2
    /\ Keys(data) # {}
    /\ \E i \in 1..NExps : Keys(ExpTable(i)) # Keys(data)

\* the value columns of a table: every column but the key
NValueColumns(f) == Len(f.columns) - 1

\* the product, over the group's experiments from position i on, of the
\* number of rows in which each holds key k
RECURSIVE Matches(_, _)
Matches(k, i) ==
    IF i > NExps THEN 1 ELSE Count(ExpTable(i), k) * Matches(k, i + 1)

RECURSIVE SumOver(_)
SumOver(S) ==
    IF S = {} THEN 0
    ELSE LET k == CHOOSE x \in S : TRUE IN Matches(k, 1) + SumOver(S \ {k})

NoRepeatedKey == \A i \in 1..NExps : Cardinality(Keys(ExpTable(i))) = Len(ExpTable(i).rows)

\* C2 as stated: whatever the key columns hold, the composed table has N
\* value columns and as many rows as the key sets have values in common.
C2_RowsAreCommonKeys ==
    (op = "Compose" /\ NExps >= 1 /\ AllLoaded)
        => /\ err = None
           /\ NValueColumns(data) = NExps
           /\ Len(data.rows) = Cardinality(CommonKeys)

\* C2 amended: the composed table has N value columns and one row for every
\* combination of matching rows, that is, summed over the common keys, the
\* product of the number of rows each experiment holds for the key; with no key
\* repeated inside an experiment that is the number of common keys.
C2_RowsAreMatches ==
    (op = "Compose" /\ NExps >= 1 /\ AllLoaded)
        => /\ err = None
           /\ NValueColumns(data) = NExps
           /\ Len(data.rows) = SumOver(CommonKeys)
           /\ NoRepeatedKey => Len(data.rows) = Cardinality(CommonKeys)

\* keys [1,2,3] and [2,3,4]: two rows (keys 2 and 3), two value columns
C2_Witness ==
    /\ Composed
    /\ NExps = 2
    /\ [i \in 1..2 |-> [j \in 1..Len(ExpTable(i).rows) |-> ExpTable(i).rows[j][1]]]
           = << <<1, 2, 3>>, <<2, 3, 4>> >>
    /\ Keys(data) = {2, 3}
    /\ Len(data.rows) = 2
    /\ NValueColumns(data) = 2

\* C3: after Compose() the columns are Wavelength, Exp_0, ..., Exp_{N-1}, and
\* in every row the value under Exp_i is a value the i-th experiment of the
\* list holds for the row's key.
C3_ColumnsFollowList ==
    (op = "Compose" /\ NExps >= 1 /\ AllLoaded)
        => /\ err = None
           /\ data.columns = <<"Wavelength">> \o [i \in 1..NExps |-> ExpLabels[i]]
           /\ \A r \in 1..Len(data.rows) : \A i \in 1..NExps :
                  <<data.rows[r][1], data.rows[r][i + 1]>> \in Range(ExpTable(i).rows)

\* a join of two different experiments, the second of the pair first in the
\* list, with a row in it
C3_Witness ==
    /\ Composed
    /\ NExps = 2
    /\ expList[1] > expList[2]
    /\ Len(data.rows) >= 1
    /\ data.columns = <<"Wavelength", "Exp_0", "Exp_1">>

\* C4: Compose() on loaded experiments whose key sets have no value in common
\* raises nothing and caches a table of 0 rows and N value columns.
C4_DisjointKeysEmptyTable ==
    (op = "Compose" /\ NExps >= 1 /\ AllLoaded /\ CommonKeys = {})
        => /\ err = None
           /\ isComposed
           /\ Len(data.rows) = 0
           /\ NValueColumns(data) = NExps

\* two experiments with rows and no common key, composed
C4_Witness ==
    /\ Composed
    /\ NExps >= 2
    /\ \A i \in 1..NExps : Len(ExpTable(i).rows) >= 1
    /\ CommonKeys = {}
    /\ data.rows = <<>>

\* C5: Compose() on a group without experiments raises (the TypeError of
\* reduce on an empty list, the store's empty-store error) and leaves the
\* composed and the statistics cache as they were, unset if they were unset.
C5_EmptyStoreFails ==
    [][(op' = "Compose" /\ expList = <<>>)
          => /\ err' = Error("TypeError")
             /\ data' = data
             /\ stats' = stats]_vars

\* the failed Compose() of an empty group, nothing cached
C5_Witness ==
    /\ op = "Compose"
    /\ expList = <<>>
    /\ err = Error("TypeError")
    /\ ~isComposed
    /\ ~isStats

\* C6: with an experiment of the list not loaded, Compose(), and genStats() on
\* a group that is not composed, raise the ValueError naming the index of the
\* first such experiment and change neither cache nor any table.
C6_NotLoadedFails ==
    [][((op' = "Compose" \/ (op' = "genStats" /\ ~isComposed)) /\ Unloaded # {})
          => /\ err' = IndexError_("ValueError",
                           (CHOOSE i \in Unloaded : \A j \in Unloaded : i <= j) - 1)
             /\ UNCHANGED <<exp_data, expList, data, stats>>]_vars

\* Compose() failed on the second experiment of the list, the composed cache
\* and the statistics cache set
C6_Witness ==
    /\ op = "Compose"
    /\ err = IndexError_("ValueError", 1)
    /\ Unloaded = {2}
    /\ isComposed
    /\ isStats

\* C7: addExp with a SpectExp appends it to the list, keeps the experiments
\* before it in their order and leaves both caches unset.
C7_AddExpAppends ==
    [][(op' = "addExp" /\ err' = None)
          => /\ arg'.exp \in Exps
             /\ expList' = Append(expList, arg'.exp)
             /\ data' = None
             /\ stats' = None]_vars

\* an experiment added behind another
C7_Witness ==
    /\ op = "addExp"
    /\ err = None
    /\ NExps = 2
    /\ expList[2] = arg.exp
    /\ expList[1] # arg.exp
    /\ ~isComposed
    /\ ~isStats

\* C8: setExpList with a list of SpectExp objects makes that list the group's
\* list and leaves both caches unset.
C8_SetExpListReplaces ==
    (op = "setExpList" /\ err = None)
        => /\ expList = arg.list
           /\ Range(expList) \subseteq Exps
           /\ data = None
           /\ stats = None

\* a list of two experiments, not in the order of their numbers, installed
C8_Witness ==
    /\ op = "setExpList"
    /\ err = None
    /\ NExps = 2
    /\ expList[1] > expList[2]
    /\ ~isComposed
    /\ ~isStats

\* the join of the group's current experiments
JoinOfRecords ==
    Frame(ComposedColumns(RangeList(NExps)), reduce([i \in 1..NExps |-> ExpTable(i)]).rows)

\* C9: in every reachable state a cached composed table is the join of the
\* group's current list of experiments.
C9_ComposedIsJoinOfRecords ==
    isComposed => (NExps >= 1 /\ AllLoaded /\ data = JoinOfRecords)

\* C10: in every reachable state with cached statistics the composed cache
\* is set and the statistics are the row-wise statistics of that table.
C10_StatsDescribeComposed ==
    isStats => (isComposed /\ stats = StatsOf(data))

\* C11: the load of an experiment of the group's list that was loaded before
\* leaves no composed table and no statistics computed from the data the
\* experiment held until then: a cache that was the join of the experiments,
\* or the statistics of that join, is unset after the load.
C11_ReloadInvalidates ==
    [][(/\ op' = "SpectExp.setData"
        /\ err' = None
        /\ arg'.exp \in Range(expList)
        /\ isLoaded(arg'.exp)
        /\ AllLoaded)
          => /\ (isComposed /\ data = JoinOfRecords) => ~isComposed'
             /\ (isStats /\ stats = StatsOf(JoinOfRecords)) => ~isStats']_vars

\* the values of row i of the composed cache, and how many they are
Vals(i) == Tail(data.rows[i])
NVals(i) == Len(Vals(i))

\* genStats() has just returned normally
Generated == op = "genStats" /\ err = None

\* C12: genStats() on a group whose composed cache is unset runs Compose()
\* first; when it returns normally the composed cache is the join of the
\* experiments, the statistics have the columns Wavelength, min, max, mean,
\* std, as many rows as the composed table and in every row its key.
C12_GenStatsComposesFirst ==
    [][(op' = "genStats" /\ ~isComposed /\ err' = None)
          => /\ NExps >= 1 /\ AllLoaded
             /\ data' = JoinOfRecords
             /\ isStats'
             /\ stats'.columns = <<"Wavelength", "min", "max", "mean", "std">>
             /\ Len(stats'.rows) = Len(data'.rows)
             /\ \A i \in 1..Len(data'.rows) :
                    /\ Len(stats'.rows[i]) = 5
                    /\ stats'.rows[i][1] = data'.rows[i][1]]_vars

\* genStats() composed two experiments itself, into a table of several rows
\* with different keys
C12_Witness ==
    /\ Generated
    /\ arg.compose
    /\ NExps = 2
    /\ isComposed /\ isStats
    /\ Len(stats.rows) >= 2
    /\ stats.rows[1][1] # stats.rows[2][1]

\* a <= b for fractions of positive denominator
FracLeq(a, b) == a[1] * b[2] <= b[1] * a[2]

RECURSIVE SumSqDev(_, _, _)
SumSqDev(s, n, sum) ==
    IF s = <<>> THEN 0
    ELSE (n * s[1] - sum) * (n * s[1] - sum) + SumSqDev(Tail(s), n, sum)

\* C14: the std genStats() produced is the sample standard deviation: its
\* square times N - 1 is the sum of the squared deviations from the mean.  In
\* a row of one value min, max and mean are that value and the std is NaN,
\* and genStats() on a group of one loaded experiment raises nothing.
C14_SampleStd ==
    /\ Generated =>
           \A i \in 1..Len(stats.rows) :
               LET row == stats.rows[i]
                   n == NVals(i)
               IN  /\ n >= 2 =>
                          /\ row[5][2] > 0
                          /\ row[5][1] * n * n * (n - 1)
                                 = row[5][2] * SumSqDev(Vals(i), n, SeqSum(Vals(i)))
                   /\ n = 1 =>
                          /\ row[2] = <<Vals(i)[1], 1>>
                          /\ row[3] = <<Vals(i)[1], 1>>
                          /\ row[4] = <<Vals(i)[1], 1>>
                          /\ row[5] = NaN
    /\ (op = "genStats" /\ NExps = 1 /\ AllLoaded) => err = None

\* the statistics of a group of one experiment, composed by genStats() itself
C14_Witness ==
    /\ Generated
    /\ arg.compose
    /\ NExps = 1
    /\ Len(stats.rows) >= 2
    /\ \A i \in 1..Len(stats.rows) : NVals(i) = 1 /\ stats.rows[i][5] = NaN

\* C15: a Compose() that follows a Compose() that returned normally returns
\* normally, leaves the composed table as it is (columns, rows and values)
\* and changes neither the list, the statistics nor any experiment's table.
C15_ComposeIdempotent ==
    [][(op = "Compose" /\ err = None /\ op' = "Compose")
          => /\ err' = None
             /\ data' = data
             /\ UNCHANGED <<exp_data, expList, stats>>]_vars

\* the second of two calls of Compose() in a row, on two experiments with
\* common keys, the statistics set
C15_Witness ==
    /\ Composed
    /\ arg.again
    /\ NExps = 2
    /\ Len(data.rows) >= 1
    /\ isStats

\* an index list of integers that are positions of the group's list
ValidIndexes(l) == \A j \in 1..Len(l) : l[j] # NotInt /\ 0 <= l[j] /\ l[j] < NExps
AllValid(groupDef) == \A k \in 1..Len(groupDef) : ValidIndexes(groupDef[k])

\* C16: genSubgroup with every index an integer in range returns one group
\* per index list, in their order, and the j-th experiment of the k-th group
\* is the experiment at position groupDef[k][j] of the group's list.
C16_SubgroupsFollowIndexSets ==
    (op = "genSubgroup" /\ AllValid(arg.groupDef))
        => /\ err = None
           /\ Len(arg.subgroups) = Len(arg.groupDef)
           /\ \A k \in 1..Len(arg.groupDef) :
                  /\ Len(arg.subgroups[k].expList) = Len(arg.groupDef[k])
                  /\ \A j \in 1..Len(arg.groupDef[k]) :
                         arg.subgroups[k].expList[j] = expList[arg.groupDef[k][j] + 1]

\* "Subgroup #{} of {}".format(n, self.getName())
SubgroupName(n) == <<"Subgroup #", n, " of ", getName>>

\* C17: genSubgroup with every index an integer in range returns groups of
\* which the n-th, counted from 1, is named "Subgroup #n of <name of the
\* group>" and has the plot configuration and the output path of the group.
C17_SubgroupsNamed ==
    (op = "genSubgroup" /\ AllValid(arg.groupDef))
        => /\ err = None
           /\ Len(arg.subgroups) = Len(arg.groupDef)
           /\ \A n \in 1..Len(arg.groupDef) :
                  /\ arg.subgroups[n].name = SubgroupName(n)
                  /\ arg.subgroups[n].plotConf = getPlotConf
                  /\ arg.subgroups[n].outPath = getOutPath

\* C18: genSubgroup with an index that is out of range, negative or not an
\* integer raises IndexError, returns no subgroup and changes neither the
\* group's list nor its caches nor any experiment.
C18_BadIndexRaisesIndexError ==
    [][(op' = "genSubgroup" /\ ~AllValid(arg'.groupDef))
          => /\ err' = Error("IndexError")
             /\ "subgroups" \notin DOMAIN arg'
             /\ UNCHANGED <<exp_data, expList, data, stats>>]_vars

\* C19: Compose() and genStats() of the second group change neither cache of
\* the first, and Compose() and genStats() of the first change neither cache
\* of the second.
C19_SubgroupIndependent ==
    [][/\ op' \in {"sub.Compose", "sub.genStats"} => (data' = data /\ stats' = stats)
       /\ op' \in {"Compose", "genStats"}
              => (sub_data' = sub_data /\ sub_stats' = sub_stats)]_vars

\* the second group, over the second of the two experiments of the first, has
\* just generated its statistics; the first holds its own table and statistics
C19_Witness ==
    /\ op = "sub.genStats"
    /\ err = None
    /\ NExps = 2
    /\ sub_expList = <<expList[2]>>
    /\ isComposed /\ isStats
    /\ sub_data # None /\ sub_stats # None
    /\ data # sub_data
    /\ stats # sub_stats

\* a line that is a data row
IsRow(line) == "fields" \in DOMAIN line

\* a file of lines without the begin line, then the begin line, then two data
\* rows or more and nothing else
RowsFollowBegin(file, begin_line) ==
    LET p == BeginAt(file, begin_line)
    IN  /\ p > 0
        /\ p + 2 <= Len(file)
        /\ \A i \in (p + 1)..Len(file) : IsRow(file[i])

\* the data rows after the begin line, in the order of the file
RowsAfterBegin(file, begin_line) ==
    LET p == BeginAt(file, begin_line)
    IN  [i \in 1..(Len(file) - p) |-> file[p + i].fields]

\* C20: readFile with a begin line and column names, on a file of lines, then
\* the begin line, then r >= 2 data rows, returns normally and loads the
\* experiment with exactly those r rows in the order of the file.
C20_EveryRowAfterBeginLoaded ==
    (/\ op = "readFile"
     /\ arg.begin_line # None
     /\ arg.col_names # None
     /\ RowsFollowBegin(arg.file, arg.begin_line))
        => /\ err = None
           /\ isLoaded(arg.exp)
           /\ exp_data[arg.exp].rows = RowsAfterBegin(arg.file, arg.begin_line)

\* the lines of the file before the begin line
LinesBeforeBegin(file, begin_line) ==
    SubSeq(file, 1, BeginAt(file, begin_line) - 1)

\* C21: after readFile with a begin line has loaded an experiment from a file
\* of lines, the begin line and two data rows or more, its metadata lines are
\* exactly the lines of the file before the begin line, and
\* no data row is ever among the metadata lines of an experiment.
C21_MetaPrecedesBegin ==
    /\ (/\ op = "readFile"
        /\ err = None
        /\ arg.begin_line # None
        /\ RowsFollowBegin(arg.file, arg.begin_line))
           => exp_meta[arg.exp] = List(LinesBeforeBegin(arg.file, arg.begin_line))
    /\ \A e \in Exps :
           exp_meta[e] # None
               => \A i \in 1..Len(exp_meta[e].list) : ~IsRow(exp_meta[e].list[i])

\* the file has no begin line, or the begin line is its last line
NoBeginOrLast(file, begin_line) ==
    LET p == BeginAt(file, begin_line)
    IN  p = 0 \/ p = Len(file)

\* C22: readFile with a begin line that the file does not hold, or holds as
\* its last line, raises, and leaves the table and the metadata lines of
\* every experiment as they were.
C22_NoBeginLeavesRecord ==
    [][(/\ op' = "readFile"
        /\ arg'.begin_line # None
        /\ NoBeginOrLast(arg'.file, arg'.begin_line))
          => /\ err' # None
             /\ exp_data' = exp_data
             /\ exp_meta' = exp_meta]_vars

\* the fields of every line of a file of data rows
AllRows(file) == [i \in 1..Len(file) |-> file[i].fields]

\* C23 as stated: readFile without a begin line loads every line of the file
\* as a data row and sets the metadata lines to the empty list.
C23_EveryLineIsARow ==
    (op = "readFile" /\ arg.begin_line = None)
        => /\ err = None
           /\ exp_data[arg.exp].rows = AllRows(arg.file)
           /\ exp_meta[arg.exp] = List(<<>>)

\* C23: readFile without a begin line sets the metadata lines to the empty
\* list; with column names it loads every line of the file as a data row,
\* without them the first line gives the column labels and every other line
\* is a data row.
C23_EveryLineButHeaderIsARow ==
    (op = "readFile" /\ arg.begin_line = None)
        => /\ err = None
           /\ exp_meta[arg.exp] = List(<<>>)
           /\ exp_data[arg.exp].rows =
                  IF arg.col_names # None
                  THEN AllRows(arg.file)
                  ELSE SubSeq(AllRows(arg.file), 2, Len(arg.file))

C23_Witness ==
    /\ op = "readFile"
    /\ arg.begin_line = None
    /\ arg.col_names # None
    /\ err = None
    /\ Len(exp_data[arg.exp].rows) = 2
    /\ exp_meta[arg.exp] = List(<<>>)

\* C24: a loaded experiment always holds a table of exactly two columns, the
\* first named "Wavelength", and SpectExp.setData with a table of another
\* number of columns raises and leaves every table as it was.
C24_TwoColumnsWavelength ==
    /\ [](\A e \in Exps :
             isLoaded(e) => /\ Len(exp_data[e].columns) = 2
                            /\ exp_data[e].columns[1] = "Wavelength")
    /\ [][(op' = "SpectExp.setData" /\ err' # None)
              => exp_data' = exp_data]_vars

C24_Witness ==
    /\ op = "SpectExp.setData"
    /\ err # None
    /\ \E e \in Exps : isLoaded(e) /\ exp_data[e].columns[2] = "B"

\* C25: Compose() and genStats() leave the table and the metadata lines of
\* every experiment as they were, also in a group of one experiment.
C25_ComposeLeavesRecords ==
    [][op' \in {"Compose", "genStats"}
          => exp_data' = exp_data /\ exp_meta' = exp_meta]_vars

\* C26: an experiment made by SpectExp() is not loaded, and a loaded
\* experiment stays loaded through every readFile, returning or raising, and
\* every setData, setMetaInfo, setName and setSource.
C26_LoadedStaysLoaded ==
    /\ \A e \in Exps : ~isLoaded(e)
    /\ [][\A e \in Exps : isLoaded(e) => isLoaded(e)']_vars

C26_Witness ==
    /\ op = "readFile"
    /\ err = Error("UnboundLocalError")
    /\ isLoaded(arg.exp)

\* C27: setExpList with a list that holds an element that is no SpectExp, and
\* addExp with an object that is no SpectExp, raise and leave the experiment
\* list and both caches as they were.
C27_BadElementLeavesGroup ==
    [][(op' \in {"setExpList", "addExp"} /\ err' # None)
          => UNCHANGED <<expList, data, stats>>]_vars

C27_Witness ==
    /\ op = "setExpList"
    /\ err # None
    /\ Len(expList) > 0
    /\ isComposed
    /\ isStats

\* genStats() of the group can return: the table is composed, or the list
\* holds an experiment and every experiment of it is loaded
CanGenStats == isComposed \/ (NExps > 0 /\ AllLoaded)

\* C28: plot in the mode "range" or "1std", in any case of letters, computes
\* the statistics if they are not set and leaves set statistics as they are;
\* the mode "stack" leaves both caches as they are; any other mode raises
\* ValueError and leaves both caches as they are.
C28_PlotModes ==
    [][op' = "plot" =>
          IF Lower(arg'.mode) \in {"range", "1std"}
          THEN IF isStats THEN UNCHANGED <<data, stats>>
               ELSE IF CanGenStats
               THEN isStats' /\ isComposed' /\ stats' = StatsOf(data')
               ELSE err' # None /\ UNCHANGED stats
          ELSE IF Lower(arg'.mode) = "stack"
          THEN UNCHANGED <<data, stats>>
          ELSE err' = Error("ValueError") /\ UNCHANGED <<data, stats>>]_vars

C28_Witness ==
    /\ op = "plot"
    /\ arg.mode = "Range"
    /\ err = None
    /\ isStats
    /\ NExps = 2

\* the experiments C29 names for the entry at position i of the JSON object
ExpectedExps(entry, i) ==
    IF "range" \notin DOMAIN entry THEN << [entry |-> i] >>
    ELSE LET a == entry.range[1]
             b == entry.range[2]
             s == IF Len(entry.range) = 3 THEN entry.range[3] ELSE 1
             n == Cardinality({j \in 0..(b - a) : a + j * s <= b})
         IN  [k \in 1..n |-> [entry |-> i, num |-> a + (k - 1) * s]]

RECURSIVE ExpectedUpTo(_, _)
ExpectedUpTo(jsonDict, i) ==
    IF i = 0 THEN <<>>
    ELSE ExpectedUpTo(jsonDict, i - 1) \o ExpectedExps(jsonDict[i], i)

\* an entry has a range that holds neither two nor three integers
BadRangeLength(jsonDict) ==
    \E i \in 1..Len(jsonDict) :
        /\ "range" \in DOMAIN jsonDict[i]
        /\ Len(jsonDict[i].range) \notin {2, 3}

\* every step of a range is 1 or more
StepsAscend(jsonDict) ==
    \A i \in 1..Len(jsonDict) :
        ("range" \in DOMAIN jsonDict[i] /\ Len(jsonDict[i].range) = 3)
            => jsonDict[i].range[3] >= 1

C30_AxisTitlesAllOrNothing ==
    [][(op' = "setAxisTitles" /\ err' # None)
          => axis_titles' = axis_titles]_vars

====
